---- MODULE Spec2Model ----
(***************************************************************************)
(* DNSBL lookups of dnsbl-rs (src/src/lib.rs): the construction of the     *)
(* query name from a candidate and a blocklist zone (check_domain,         *)
(* check_ip) and the two-step lookup protocol of DNSBL::check.             *)
(*                                                                         *)
(* A label is a sequence of one-character strings, a name is a sequence of *)
(* labels in presentation order.  The content of a TXT record is a         *)
(* sequence of chunks, a chunk a sequence of bytes (0..255); a Rust String *)
(* is the sequence of its UTF-8 bytes.                                     *)
(***************************************************************************)
EXTENDS Integers, Sequences, FiniteSets, TLC

VARIABLES
    args,       \* per call: the operation called and its arguments
    resolver,   \* per call: what the resolver answers to the call's lookups
    pc,         \* per call: the await point the call is suspended at
    dns_name,   \* per call: the local dns_name of check
    result,     \* per call: the BlockStatus returned
    queries     \* the lookups handed to the resolver, in order

vars == <<args, resolver, pc, dns_name, result, queries>>

----------------------------------------------------------------------------
(* Bounds of the model.                                                    *)

MaxRecords == 2     \* TXT records of one answer
MaxChunks == 2      \* chunks of one TXT record

(* Limits of a DNS name.                                                   *)
MaxLabelLen == 63
MaxNameLen == 255

----------------------------------------------------------------------------
(* Names.                                                                  *)

RECURSIVE SumLabelLens(_)
SumLabelLens(labels) ==
    IF labels = <<>> THEN 0
    ELSE 1 + Len(Head(labels)) + SumLabelLens(Tail(labels))

\* Octets of a name on the wire: a length octet per label, and the root.
EncodedLen(labels) == SumLabelLens(labels) + 1

\* Domain::new: the names that parse (Name::from_utf8).
ValidName(labels) ==
    /\ Len(labels) >= 1
    /\ \A i \in 1..Len(labels) :
          Len(labels[i]) >= 1 /\ Len(labels[i]) <= MaxLabelLen
    /\ EncodedLen(labels) <= MaxNameLen

\* The concatenation is beyond what a DNS name may hold.
TooLong(labels) == Len(labels) > MaxNameLen \/ EncodedLen(labels) > MaxNameLen

\* Name::from_labels(..), as far as check_domain and check_ip see it: every
\* label handed over is a valid label already, so only the length test can
\* fail.  More than 255 labels always fail.  Whether a name of more than 255
\* octets fails depends on the release of the resolver library, which the
\* source does not fix: both outcomes are admitted.
from_labels(labels) ==
    IF Len(labels) > MaxNameLen THEN {"Err"}
    ELSE IF EncodedLen(labels) > MaxNameLen THEN {"Ok", "Err"}
    ELSE {"Ok"}

\* Name::num_labels(): the labels of the name, a leading wildcard not counted.
num_labels(labels) ==
    IF Len(labels) > 0 /\ labels[1] = <<"*">> THEN Len(labels) - 1
    ELSE Len(labels)

\* Iterator::take(n)
take(s, n) == SubSeq(s, 1, IF n < Len(s) THEN n ELSE Len(s))

Reverse(s) == [i \in 1..Len(s) |-> s[Len(s) + 1 - i]]

----------------------------------------------------------------------------
(* Addresses.  An address is [v |-> 4, parts |-> four octets] or           *)
(* [v |-> 6, parts |-> eight 16-bit segments].                             *)

HexDigits == <<"0", "1", "2", "3", "4", "5", "6", "7",
               "8", "9", "a", "b", "c", "d", "e", "f">>

\* format!("{}", octet)
RECURSIVE Dec(_)
Dec(n) ==
    IF n < 10 THEN <<HexDigits[n + 1]>>
    ELSE Dec(n \div 10) \o <<HexDigits[(n % 10) + 1]>>

\* format!("{:x}", nibble)
Hex(n) == <<HexDigits[n + 1]>>

\* The four nibble labels of one segment, lowest nibble first.
SegmentLabels(o) ==
    << Hex(o % 16), Hex((o \div 16) % 16),
       Hex((o \div 256) % 16), Hex((o \div 4096) % 16) >>

RECURSIVE FoldSegments(_)
FoldSegments(segs) ==
    IF segs = <<>> THEN <<>>
    ELSE SegmentLabels(Head(segs)) \o FoldSegments(Tail(segs))

\* Name::from(IpAddr): the reverse-lookup name of the address.
IpToName(ip) ==
    IF ip.v = 4
    THEN [i \in 1..4 |-> Dec(Reverse(ip.parts)[i])]
            \o << <<"i", "n", "-", "a", "d", "d", "r">>, <<"a", "r", "p", "a">> >>
    ELSE FoldSegments(Reverse(ip.parts))
            \o << <<"i", "p", "6">>, <<"a", "r", "p", "a">> >>

NoIp == [v |-> 0, parts |-> <<>>]

----------------------------------------------------------------------------
(* Query names.                                                            *)

\* Variant: the zone's labels put first.
check_domain_labels_zone_first(list, domain) == list \o domain

\* check_domain: domain.0.into_iter().chain(&list.0)
check_domain_labels(list, domain) == domain \o list

\* Variant: one label too many kept of the reverse-lookup name.
check_ip_labels_keep_suffix(list, ip) ==
    take(IpToName(ip), num_labels(IpToName(ip)) - 1) \o list

\* check_ip: ip.into_iter().take(ip.num_labels() - 2).chain(&list.0)
check_ip_labels(list, ip) ==
    take(IpToName(ip), num_labels(IpToName(ip)) - 2) \o list

----------------------------------------------------------------------------
(* Text records.                                                           *)

Continuation(b) == b >= 128 /\ b <= 191

\* The bytes from position i on are well-formed UTF-8 (std::str::from_utf8).
RECURSIVE Utf8From(_, _)
Utf8From(b, i) ==
    IF i > Len(b) THEN TRUE
    ELSE IF b[i] <= 127 THEN Utf8From(b, i + 1)
    ELSE IF b[i] >= 194 /\ b[i] <= 223
         THEN i + 1 <= Len(b) /\ Continuation(b[i + 1]) /\ Utf8From(b, i + 2)
    ELSE IF b[i] >= 224 /\ b[i] <= 239
         THEN /\ i + 2 <= Len(b)
              /\ Continuation(b[i + 1]) /\ Continuation(b[i + 2])
              /\ (b[i] = 224 => b[i + 1] >= 160)
              /\ (b[i] = 237 => b[i + 1] <= 159)
              /\ Utf8From(b, i + 3)
    ELSE IF b[i] >= 240 /\ b[i] <= 244
         THEN /\ i + 3 <= Len(b)
              /\ Continuation(b[i + 1]) /\ Continuation(b[i + 2])
              /\ Continuation(b[i + 3])
              /\ (b[i] = 240 => b[i + 1] >= 144)
              /\ (b[i] = 244 => b[i + 1] <= 143)
              /\ Utf8From(b, i + 4)
    ELSE FALSE

\* String::from_utf8(i.to_vec()).unwrap_or_else(|_| "".to_owned())
decode_chunk(chunk) == IF Utf8From(chunk, 1) THEN chunk ELSE <<>>

Space == <<32>>

\* [String]::join(sep)
RECURSIVE join(_, _)
join(strs, sep) ==
    IF Len(strs) = 0 THEN <<>>
    ELSE IF Len(strs) = 1 THEN strs[1]
    ELSE strs[1] \o sep \o join(Tail(strs), sep)

\* Variant: the chunks of a record run together.
record_string_unspaced(rec) ==
    join([j \in 1..Len(rec) |-> decode_chunk(rec[j])], <<>>)

\* The string of one record: its chunks decoded and joined.
record_string(rec) == join([j \in 1..Len(rec) |-> decode_chunk(rec[j])], Space)

\* let message = txt.iter().map(..).collect::<Vec<_>>().join(" ")
message_of(txt) == join([i \in 1..Len(txt) |-> record_string(txt[i])], Space)

None == [some |-> FALSE, value |-> <<>>]
Some(s) == [some |-> TRUE, value |-> s]

\* Variant: the filter left out.
filter_keep_empty(s) == Some(s)

\* Some(message).filter(|s| !s.is_empty())
filter_non_empty(s) == IF s # <<>> THEN Some(s) ELSE None

----------------------------------------------------------------------------
(* BlockStatus, and the state of a call before it has returned.            *)

NotBlocked == [status |-> "NotBlocked", message |-> None]
Blocked(m) == [status |-> "Blocked", message |-> m]
Pending == [status |-> "Pending", message |-> None]

----------------------------------------------------------------------------
(* The resolver's answers.                                                 *)

Failures == {"NXDomain", "Timeout", "ServFail", "Network"}

LookupOk(recs) == [ok |-> TRUE, err |-> "none", records |-> recs]
LookupErr(e) == [ok |-> FALSE, err |-> e, records |-> <<>>]

\* Variant: only a missing name counts as a failure.
is_err_only_nxdomain(ans) == ans.err = "NXDomain"

\* Result::is_err() of a lookup
is_err(ans) == ~ans.ok

\* Variant: every call is handed the answers to the first call's lookups.
lookup_first_call(c, rtype) == IF rtype = "A" THEN resolver[1].a ELSE resolver[1].txt

\* What the resolver answers to the lookup that call c awaits.
lookup(c, rtype) == IF rtype = "A" THEN resolver[c].a ELSE resolver[c].txt

\* Variant: a failed TXT lookup withdraws the listing.
blocked_status_or_not(txt) ==
    IF txt.ok THEN Blocked(filter_non_empty(message_of(txt.records)))
    ELSE NotBlocked

\* The arm of check taken once the TXT lookup has completed.
blocked_status(txt) ==
    IF txt.ok THEN Blocked(filter_non_empty(message_of(txt.records)))
    ELSE Blocked(None)

Query(c, rtype, name) == [call |-> c, rtype |-> rtype, name |-> name]

----------------------------------------------------------------------------
(* The inputs of the model: zones, candidates and resolver answers.        *)

Label63 == [i \in 1..MaxLabelLen |-> "x"]

Zones ==
    { << <<"b", "l">>, <<"t", "e", "s", "t">> >>,
      << Label63, Label63 >>,
      << Label63, Label63, Label63 >> }

Domains ==
    { << <<"b", "a", "d">>, <<"c", "o", "m">> >>,
      << <<"B", "L">>, <<"t", "e", "s", "t">> >>,
      << <<"b", "l">>, <<"t", "e", "s", "t">> >>,
      << <<"*">>, <<"b", "l">> >>,
      << Label63 >>,
      << Label63, Label63 >> }

OctetSamples == {0, 9, 10, 192, 255}

IpAddrs ==
    { [v |-> 4, parts |-> o] : o \in [1..4 -> OctetSamples] }
    \cup { [v |-> 4, parts |-> <<192, 168, 0, 1>>],
           [v |-> 4, parts |-> <<127, 0, 0, 2>>] }
    \cup { [v |-> 6, parts |-> <<0, 0, 0, 0, 0, 0, 0, 1>>],
           [v |-> 6, parts |-> <<8193, 3512, 0, 0, 0, 65280, 66, 33577>>],
           [v |-> 6, parts |-> <<291, 17767, 35243, 52719, 65244, 47768, 30292, 12816>>],
           [v |-> 6, parts |-> [i \in 1..8 |-> 65535]] }

DomainCall(list, domain) ==
    [op |-> "check_domain", list |-> list, domain |-> domain, ip |-> NoIp]
IpCall(list, ip) ==
    [op |-> "check_ip", list |-> list, domain |-> <<>>, ip |-> ip]

\* Every call the model makes: valid names only, as Domain::new admits.
AllCalls ==
    { DomainCall(z, d) : z \in {x \in Zones : ValidName(x)},
                         d \in {x \in Domains : ValidName(x)} }
    \cup { IpCall(z, a) : z \in {x \in Zones : ValidName(x)}, a \in IpAddrs }

Chunks == { <<>>, <<97>>, <<255>> }

SeqsUpTo(S, n) == UNION { [1..k -> S] : k \in 0..n }

\* The content of TXT answers: every answer within the bounds, and single
\* chunks that exercise the UTF-8 decoding.
TxtContents ==
    SeqsUpTo(SeqsUpTo(Chunks, MaxChunks), MaxRecords)
    \cup { << <<ch>> >> : ch \in { <<32>>, <<195, 169>>, <<195>>, <<97, 255>>,
                                  <<226, 130, 172>>, <<237, 160, 128>>,
                                  <<192, 128>>, <<240, 159, 146, 169>>,
                                  <<104, 105>> } }

AAnswers == { LookupOk(<<2>>) } \cup { LookupErr(e) : e \in Failures }
TxtAnswers == { LookupOk(t) : t \in TxtContents } \cup { LookupErr(e) : e \in Failures }

Script(a, t) == [a |-> a, txt |-> t]

OneCall == {1}
TwoCalls == {1, 2}

\* Two calls in flight on one DNSBL, over all kinds of answers.
ConcurrentInputs ==
    { <<ar, rs>> \in
        [TwoCalls ->
            { DomainCall(<< <<"b", "l">>, <<"t", "e", "s", "t">> >>,
                         << <<"b", "a", "d">>, <<"c", "o", "m">> >>),
              IpCall(<< <<"b", "l">>, <<"t", "e", "s", "t">> >>,
                     [v |-> 4, parts |-> <<192, 168, 0, 1>>]),
              IpCall(<< <<"b", "l">>, <<"t", "e", "s", "t">> >>,
                     [v |-> 4, parts |-> <<127, 0, 0, 2>>]) }]
        \X [TwoCalls ->
            { Script(a, t) :
                a \in AAnswers,
                t \in { LookupErr("Timeout"), LookupErr("NXDomain"),
                        LookupOk(<<>>), LookupOk(<< <<<<97>>>> >>),
                        LookupOk(<< <<<<104, 105>>>> >>) } }] : TRUE }

\* One call, over all TXT answers and all failures.
AnswerInputs ==
    { <<ar, rs>> \in
        [OneCall -> { DomainCall(<< <<"b", "l">>, <<"t", "e", "s", "t">> >>,
                                 << <<"b", "a", "d">>, <<"c", "o", "m">> >>) }]
        \X [OneCall -> { Script(LookupOk(<<2>>), t) : t \in TxtAnswers }
                        \cup { Script(a, LookupOk(<< <<<<97>>>> >>)) : a \in AAnswers }]
        : TRUE }

\* One call, over all candidates and zones.
NameInputs ==
    { <<ar, rs>> \in
        [OneCall -> AllCalls]
        \X [OneCall -> { Script(a, LookupOk(<< <<<<97>>>> >>)) :
                            a \in { LookupOk(<<2>>), LookupErr("NXDomain") } }] : TRUE }

Inputs == ConcurrentInputs \cup AnswerInputs \cup NameInputs

Calls == DOMAIN args

\* The state after DNSBL::new: no call has been polled yet.
Init ==
    /\ \E in \in Inputs : args = in[1] /\ resolver = in[2]
    /\ pc = [c \in DOMAIN args |-> "start"]
    /\ dns_name = [c \in DOMAIN args |-> <<>>]
    /\ result = [c \in DOMAIN args |-> Pending]
    /\ queries = <<>>

----------------------------------------------------------------------------
(* The steps of a call, from one await to the next.                        *)

\* check, entered with dns_name: the A lookup is handed to the resolver.
check(c, name) ==
    /\ dns_name' = [dns_name EXCEPT ![c] = name]
    /\ queries' = Append(queries, Query(c, "A", name))
    /\ pc' = [pc EXCEPT ![c] = "ipv4_lookup"]
    /\ UNCHANGED result

\* .expect("always valid") on a failed Name::from_labels
panic(c) ==
    /\ pc' = [pc EXCEPT ![c] = "panicked"]
    /\ UNCHANGED <<dns_name, queries, result>>

check_domain(c) ==
    /\ pc[c] = "start"
    /\ args[c].op = "check_domain"
    /\ \E r \in from_labels(check_domain_labels(args[c].list, args[c].domain)) :
          IF r = "Ok"
          THEN check(c, check_domain_labels(args[c].list, args[c].domain))
          ELSE panic(c)
    /\ UNCHANGED <<args, resolver>>

check_ip(c) ==
    /\ pc[c] = "start"
    /\ args[c].op = "check_ip"
    /\ \E r \in from_labels(check_ip_labels(args[c].list, args[c].ip)) :
          IF r = "Ok"
          THEN check(c, check_ip_labels(args[c].list, args[c].ip))
          ELSE panic(c)
    /\ UNCHANGED <<args, resolver>>

\* Variant: the TXT lookup is started whatever the A lookup gave.
ipv4_lookup_done_eager(c) ==
    /\ pc[c] = "ipv4_lookup"
    /\ queries' = Append(queries, Query(c, "TXT", dns_name[c]))
    /\ IF is_err(lookup(c, "A"))
       THEN /\ result' = [result EXCEPT ![c] = NotBlocked]
            /\ pc' = [pc EXCEPT ![c] = "done"]
       ELSE /\ pc' = [pc EXCEPT ![c] = "txt_lookup"]
            /\ UNCHANGED result
    /\ UNCHANGED <<args, resolver, dns_name>>

\* The A lookup completes: NotBlocked on failure, else the TXT lookup.
ipv4_lookup_done(c) ==
    /\ pc[c] = "ipv4_lookup"
    /\ IF is_err(lookup(c, "A"))
       THEN /\ result' = [result EXCEPT ![c] = NotBlocked]
            /\ pc' = [pc EXCEPT ![c] = "done"]
            /\ UNCHANGED queries
       ELSE /\ queries' = Append(queries, Query(c, "TXT", dns_name[c]))
            /\ pc' = [pc EXCEPT ![c] = "txt_lookup"]
            /\ UNCHANGED result
    /\ UNCHANGED <<args, resolver, dns_name>>

\* The TXT lookup completes: Blocked, with the message if there is one.
txt_lookup_done(c) ==
    /\ pc[c] = "txt_lookup"
    /\ result' = [result EXCEPT ![c] = blocked_status(lookup(c, "TXT"))]
    /\ pc' = [pc EXCEPT ![c] = "done"]
    /\ UNCHANGED <<args, resolver, dns_name, queries>>

Next ==
    \/ \E c \in Calls : check_domain(c)
    \/ \E c \in Calls : check_ip(c)
    \/ \E c \in Calls : ipv4_lookup_done(c)
    \/ \E c \in Calls : txt_lookup_done(c)

Spec == Init /\ [][Next]_vars

----------------------------------------------------------------------------
(* Vocabulary of the properties.                                           *)

QueriesOf(c) == SelectSeq(queries, LAMBDA q : q.call = c)

Returned(c) == pc[c] = "done"
AFailed(c) == resolver[c].a.err \in Failures
ASucceeded(c) == resolver[c].a.err = "none"
TxtFailed(c) == resolver[c].txt.err \in Failures
TxtSucceeded(c) == resolver[c].txt.err = "none"

\* The strings s1, s2, .. with one space between neighbours.
SpacedConcat(strs) ==
    LET F[k \in 0..Len(strs)] ==
            IF k = 0 THEN <<>>
            ELSE IF k = 1 THEN strs[1]
            ELSE F[k - 1] \o <<32>> \o strs[k]
    IN  F[Len(strs)]

\* All chunks of an answer as text, in record order and chunk order.
AllChunks(txt) ==
    LET F[k \in 0..Len(txt)] ==
            IF k = 0 THEN <<>>
            ELSE F[k - 1] \o [j \in 1..Len(txt[k]) |-> decode_chunk(txt[k][j])]
    IN  F[Len(txt)]

\* The same, a record without chunks standing as one empty string.
ChunksOrEmpty(txt) ==
    LET F[k \in 0..Len(txt)] ==
            IF k = 0 THEN <<>>
            ELSE IF Len(txt[k]) = 0 THEN F[k - 1] \o << <<>> >>
            ELSE F[k - 1] \o [j \in 1..Len(txt[k]) |-> decode_chunk(txt[k][j])]
    IN  F[Len(txt)]

SomeText(txt) == \E i \in 1..Len(AllChunks(txt)) : AllChunks(txt)[i] # <<>>

\* The address labels a reverse lookup of the address starts with.
AddressLabels(ip) ==
    IF ip.v = 4
    THEN << Dec(ip.parts[4]), Dec(ip.parts[3]), Dec(ip.parts[2]), Dec(ip.parts[1]) >>
    ELSE [i \in 1..32 |->
            << HexDigits[((ip.parts[8 - ((i - 1) \div 4)] \div (16 ^ ((i - 1) % 4))) % 16) + 1] >>]

ArpaLabels ==
    { <<"i", "n", "-", "a", "d", "d", "r">>, <<"i", "p", "6">>, <<"a", "r", "p", "a">> }

----------------------------------------------------------------------------
(* C1: when the A lookup of a call fails, whatever the failure, the call   *)
(* returns exactly NotBlocked: never Blocked, never an error or a panic.   *)
C1_AFailureIsNotBlocked ==
    \A c \in Calls :
        (AFailed(c) /\ pc[c] \notin {"start", "panicked", "ipv4_lookup"})
            => (pc[c] = "done" /\ result[c] = NotBlocked)

C1_Witness ==
    \E c \in Calls :
        /\ Returned(c) /\ resolver[c].a.err = "Network"
        /\ result[c] = NotBlocked /\ args[c].op = "check_ip"

(* C2: when the A lookup succeeds and the TXT lookup fails, the call       *)
(* returns Blocked with an absent message.                                 *)
C2_TxtFailureIsBlockedNone ==
    \A c \in Calls :
        (Returned(c) /\ ASucceeded(c) /\ TxtFailed(c))
            => result[c] = Blocked(None)

C2_Witness ==
    \E c \in Calls :
        /\ Returned(c) /\ ASucceeded(c) /\ resolver[c].txt.err = "ServFail"
        /\ result[c] = Blocked(None)

(* C3, as claimed: when both lookups succeed and some chunk decodes to     *)
(* text, the message is all chunks, in order, with single spaces between.  *)
C3_MessageIsAllChunksJoined ==
    \A c \in Calls :
        (Returned(c) /\ ASucceeded(c) /\ TxtSucceeded(c)
            /\ SomeText(resolver[c].txt.records))
            => result[c] =
                 Blocked(Some(SpacedConcat(AllChunks(resolver[c].txt.records))))

(* C3, amended: when both lookups succeed and some chunk decodes to text,  *)
(* the message is present and is the records' strings with single spaces   *)
(* between, a record's string being its chunks with single spaces between: *)
(* a record without chunks counts as one empty string.                     *)
C3_MessageIsRecordsJoined ==
    \A c \in Calls :
        (Returned(c) /\ ASucceeded(c) /\ TxtSucceeded(c)
            /\ SomeText(resolver[c].txt.records))
            => result[c] =
                 Blocked(Some(SpacedConcat(ChunksOrEmpty(resolver[c].txt.records))))

C3_Witness ==
    \E c \in Calls :
        /\ Returned(c) /\ ASucceeded(c) /\ TxtSucceeded(c)
        /\ resolver[c].txt.records = << <<>>, << <<97>>, <<>> >> >>
        /\ result[c] = Blocked(Some(<<32, 97, 32>>))

(* C4: when both lookups succeed and every chunk is empty or is not UTF-8, *)
(* the message is absent.                                                  *)
C4_NoTextIsNone ==
    \A c \in Calls :
        (Returned(c) /\ ASucceeded(c) /\ TxtSucceeded(c)
            /\ ~SomeText(resolver[c].txt.records))
            => result[c] = Blocked(None)

(* C5: the name check_ip hands to the resolver is the address labels of    *)
(* the reverse-lookup name (four reversed decimal octets, or 32 reversed   *)
(* hex nibbles) followed by the zone's labels: no arpa label remains and   *)
(* no address label is dropped.                                            *)
C5_IpQueryName ==
    \A c \in Calls :
        (args[c].op = "check_ip" /\ pc[c] \notin {"start", "panicked"})
            => /\ dns_name[c] = AddressLabels(args[c].ip) \o args[c].list
               /\ Len(dns_name[c]) =
                    (IF args[c].ip.v = 4 THEN 4 ELSE 32) + Len(args[c].list)
               /\ \A i \in 1..(Len(dns_name[c]) - Len(args[c].list)) :
                     dns_name[c][i] \notin ArpaLabels
               /\ Len(QueriesOf(c)) >= 1
               /\ \A i \in 1..Len(QueriesOf(c)) :
                     QueriesOf(c)[i].name = AddressLabels(args[c].ip) \o args[c].list

C5_Witness ==
    /\ \E c \in Calls :
          /\ args[c].ip = [v |-> 4, parts |-> <<192, 168, 0, 1>>]
          /\ Len(QueriesOf(c)) = 2
          /\ QueriesOf(c)[1].name =
                << <<"1">>, <<"0">>, <<"1", "6", "8">>, <<"1", "9", "2">>,
                   <<"b", "l">>, <<"t", "e", "s", "t">> >>

C5_WitnessV6 ==
    \E c \in Calls :
        /\ args[c].op = "check_ip" /\ args[c].ip.v = 6
        /\ Returned(c) /\ Len(dns_name[c]) = 34

(* C6: the name check_domain hands to the resolver is the candidate's      *)
(* labels followed by the zone's labels, each in their order, nothing      *)
(* added, removed, reordered, normalized or deduplicated.                  *)
C6_DomainQueryName ==
    \A c \in Calls :
        (args[c].op = "check_domain" /\ pc[c] \notin {"start", "panicked"})
            => /\ Len(dns_name[c]) = Len(args[c].domain) + Len(args[c].list)
               /\ \A i \in 1..Len(args[c].domain) :
                     dns_name[c][i] = args[c].domain[i]
               /\ \A i \in 1..Len(args[c].list) :
                     dns_name[c][Len(args[c].domain) + i] = args[c].list[i]
               /\ Len(QueriesOf(c)) >= 1
               /\ \A i \in 1..Len(QueriesOf(c)) : QueriesOf(c)[i].name = dns_name[c]

C6_Witness ==
    \E c \in Calls :
        /\ args[c].op = "check_domain" /\ Returned(c)
        /\ dns_name[c] = << <<"B", "L">>, <<"t", "e", "s", "t">>,
                            <<"b", "l">>, <<"t", "e", "s", "t">> >>

(* C7: when candidate and zone together exceed the limits of a DNS name,   *)
(* check_domain ends with a name-too-long error returned to the caller,    *)
(* and hands no lookup to the resolver.                                    *)
C7_NameTooLongReported ==
    \A c \in Calls :
        (args[c].op = "check_domain" /\ pc[c] # "start"
            /\ TooLong(args[c].domain \o args[c].list))
            => /\ pc[c] = "done"
               /\ result[c].status = "NameTooLongError"
               /\ QueriesOf(c) = <<>>

\* What a call run alone returns for the answers to its own lookups, and
\* the lookups it makes.
AloneName(c) ==
    IF args[c].op = "check_domain" THEN args[c].domain \o args[c].list
    ELSE AddressLabels(args[c].ip) \o args[c].list

AloneResult(c) ==
    IF AFailed(c) THEN NotBlocked
    ELSE IF TxtFailed(c) THEN Blocked(None)
    ELSE IF SpacedConcat(ChunksOrEmpty(resolver[c].txt.records)) = <<>>
         THEN Blocked(None)
    ELSE Blocked(Some(SpacedConcat(ChunksOrEmpty(resolver[c].txt.records))))

AloneQueries(c) ==
    IF AFailed(c) THEN << Query(c, "A", AloneName(c)) >>
    ELSE << Query(c, "A", AloneName(c)), Query(c, "TXT", AloneName(c)) >>

(* C8: calls in flight on one DNSBL do not interfere: a step of one call   *)
(* leaves every other call as it was, and under every interleaving a call  *)
(* returns what it returns when run alone with the same answers to its own *)
(* lookups, having made the same lookups.                                  *)
C8_CallsIndependent ==
    /\ [](\A c \in Calls :
            Returned(c) =>
                (result[c] = AloneResult(c) /\ QueriesOf(c) = AloneQueries(c)))
    /\ [][\A c, d \in Calls :
            (c # d /\ pc'[c] # pc[c]) =>
                /\ pc'[d] = pc[d]
                /\ result'[d] = result[d]
                /\ dns_name'[d] = dns_name[d]
                /\ QueriesOf(d)' = QueriesOf(d)]_vars

C8_Witness ==
    /\ Calls = TwoCalls
    /\ args[1] # args[2]
    /\ Returned(1) /\ Returned(2)
    /\ result[1] = NotBlocked
    /\ result[2] = Blocked(Some(<<104, 105>>))
    /\ Len(queries) = 3
    /\ queries[1].call = 2 /\ queries[2].call = 1 /\ queries[3].call = 2

(* C9: within one call the lookups are sequential: the A lookup first and  *)
(* once; the TXT lookup at most once, only after the A lookup succeeded,   *)
(* and for the same name; none when the A lookup failed; none after the    *)
(* call has returned.                                                      *)
C9_LookupsSequential ==
    \A c \in Calls :
        LET q == QueriesOf(c)
            A == Query(c, "A", dns_name[c])
            T == Query(c, "TXT", dns_name[c])
        IN  CASE pc[c] \in {"start", "panicked"} -> q = <<>>
              [] pc[c] = "ipv4_lookup" -> q = <<A>> /\ result[c] = Pending
              [] pc[c] = "txt_lookup" ->
                    q = <<A, T>> /\ ASucceeded(c) /\ result[c] = Pending
              [] pc[c] = "done" ->
                    \/ result[c] = NotBlocked /\ AFailed(c) /\ q = <<A>>
                    \/ result[c].status = "Blocked" /\ ASucceeded(c) /\ q = <<A, T>>

C9_Witness ==
    \E c, d \in Calls :
        /\ c # d
        /\ Returned(c) /\ result[c].status = "Blocked" /\ Len(QueriesOf(c)) = 2
        /\ Returned(d) /\ result[d] = NotBlocked /\ Len(QueriesOf(d)) = 1

C7_PanicReached ==
    \E c \in Calls :
        /\ args[c].op = "check_domain" /\ pc[c] = "panicked"
        /\ ValidName(args[c].domain) /\ ValidName(args[c].list)

====
